---- MODULE Spec2Model ----
\* Model of the dispatcher's BlockchainDriver
\* (offchain/dispatcher/src/drivers/blockchain.rs): one reconciliation pass
\* (`react`) over a claim feed, and a caller that runs passes one after another.
EXTENDS Integers, Sequences, FiniteSets, TLC

\* ---------------------------------------------------------------- bounds
MaxFeed == 3
MaxNumber == 2
MaxConfirmed == 1
MaxReplayFeed == 2

Addresses == {"a1", "a2"}
Hashes == {"h1", "h2"}
FeedErrors == {"FeedError"}
SubmissionError == "SubmissionError"
NoError == "none"

\* ---------------------------------------------------------------- data
\* RollupClaim { hash, number }
RollupClaim == [number : 0..MaxNumber, hash : Hashes]
NoClaim == [number |-> 0, hash |-> "h0"]

\* What one request to the feed can answer: Ok(Some(claim)), Ok(None), Err(e).
SomeItem(c) == [kind |-> "Some", claim |-> c, error |-> NoError]
NoneItem == [kind |-> "None", claim |-> NoClaim, error |-> NoError]
ErrItem(e) == [kind |-> "Err", claim |-> NoClaim, error |-> e]
FeedItems == {SomeItem(c) : c \in RollupClaim} \cup {NoneItem} \cup {ErrItem(e) : e \in FeedErrors}

SeqsUpTo(S, n) == UNION {[1..k -> S] : k \in 0..n}

\* A confirmed on-chain claim; only how many there are matters to the driver.
Confirmed == "claim"
\* DAppClaims { claims }
DAppClaims(n) == [claims |-> [i \in 1..n |-> Confirmed]]
\* History.dapp_claims: a map from some of the addresses to their DAppClaims.
Histories == UNION {[D -> {DAppClaims(n) : n \in 0..MaxConfirmed}] : D \in SUBSET Addresses}

\* Result<TS>
Pending == [kind |-> "Pending", value |-> 0, error |-> NoError]
Ok(ts) == [kind |-> "Ok", value |-> ts, error |-> NoError]
Err(e) == [kind |-> "Err", value |-> 0, error |-> e]

\* mock::TxSender::new(): a capability that has sent nothing.
TxSenderNew == 0

VARIABLES
  dapp_address,   \* BlockchainDriver.dapp_address
  history,        \* the snapshot handed to the current pass (dapp_claims)
  broker,         \* the feed: its items and how many of them were handed out
  tx_sender,      \* the capability the pass holds (its send count)
  claims_sent,    \* react's local `claims_sent`
  claim,          \* react's local `claim`
  pc,             \* where the pass is: Start, Polling, Submitting, Done, Aborted
  result,         \* what react returned
  polled,         \* answers the feed gave in this pass, in order
  submissions,    \* claims handed to send_claim_tx with success in this pass
  tx_sender_in,   \* the capability the caller passed into this pass
  used,           \* the capability values moved into send_claim_tx in this pass
  in_flight,      \* the awaited operations that have not returned yet
  mode,           \* how the caller started this pass: first, rerun, resume
  prev            \* what the caller remembers of the pass before this one

vars == <<dapp_address, history, broker, tx_sender, claims_sent, claim, pc,
          result, polled, submissions, tx_sender_in, used, in_flight, mode, prev>>

NoPrev == [pc |-> "none", history |-> <<>>, claims_sent |-> 0, polled |-> <<>>, submissions |-> <<>>,
           result |-> Pending, broker |-> [items |-> <<>>, cursor |-> 0]]

\* ---------------------------------------------------------------- pure code
\* counts the confirmed claims of every address
claims_sent_any_address(h, a) ==
  Cardinality(UNION {{<<x, i>> : i \in DOMAIN h[x].claims} : x \in DOMAIN h})

\* fn claims_sent(history, dapp_address) -> u64
claims_sent_fn(h, a) ==
  IF a \in DOMAIN h THEN Len(h[a].claims) ELSE 0

ShouldSend_ge(c, sent) == c.number >= sent

ShouldSend_above_next(c, sent) == c.number > sent + 1

ShouldSend_ne(c, sent) == c.number # sent

\* if claim.number > claims_sent
ShouldSend(c, sent) == c.number > sent

\* Ok(tx_sender)
react_return(ts) == Ok(ts)

\* `.await`: the operation op is called and the pass is suspended on it
Issue(fl, op) == Append(fl, op)

\* `.await` returns: one outstanding call of op has completed
Complete(fl, op) ==
  IF \E i \in DOMAIN fl : fl[i] = op
    THEN LET k == CHOOSE i \in DOMAIN fl : fl[i] = op /\ \A j \in 1..(i - 1) : fl[j] # op
         IN SubSeq(fl, 1, k - 1) \o SubSeq(fl, k + 1, Len(fl))
    ELSE fl

\* ---------------------------------------------------------------- collaborators
\* broker.next_claim(): the answer the feed gives to the next request, and
\* the feed after it. Past its last item the feed has no claim to offer.
NextAnswer(b) ==
  IF b.cursor < Len(b.items) THEN b.items[b.cursor + 1] ELSE NoneItem

Advance(b) == [b EXCEPT !.cursor = b.cursor + 1]

\* tx_sender.send_claim_tx(hash), when it succeeds: the capability after the send.
send_claim_tx(ts) == ts + 1

\* ---------------------------------------------------------------- init
\* BlockchainDriver::new(dapp_address). The snapshots range over every
\* combination of entries for both addresses, so which of the two addresses
\* the driver is built with makes no difference: it is built with the first.
Init ==
  /\ dapp_address = "a1"
  /\ history \in Histories
  /\ broker \in [items : SeqsUpTo(FeedItems, MaxFeed), cursor : {0}]
  /\ tx_sender = TxSenderNew
  /\ tx_sender_in = TxSenderNew
  /\ claims_sent = 0
  /\ claim = NoClaim
  /\ pc = "Start"
  /\ result = Pending
  /\ polled = <<>>
  /\ submissions = <<>>
  /\ used = <<>>
  /\ in_flight = <<>>
  /\ mode = "first"
  /\ prev = NoPrev

\* ---------------------------------------------------------------- react
\* let claims_sent = claims_sent(history, &self.dapp_address);
ComputeThreshold ==
  /\ pc = "Start"
  /\ claims_sent' = claims_sent_fn(history, dapp_address)
  /\ pc' = "Polling"
  /\ in_flight' = Issue(in_flight, "next_claim")
  /\ UNCHANGED <<dapp_address, history, broker, tx_sender, claim, result,
                 polled, submissions, tx_sender_in, used, mode, prev>>

\* the send is started without being awaited and the loop polls on
NextClaimSome_spawn ==
  /\ pc = "Polling"
  /\ NextAnswer(broker).kind = "Some"
  /\ broker' = Advance(broker)
  /\ polled' = Append(polled, NextAnswer(broker))
  /\ claim' = NextAnswer(broker).claim
  /\ pc' = "Polling"
  /\ used' = IF ShouldSend(NextAnswer(broker).claim, claims_sent)
             THEN Append(used, tx_sender) ELSE used
  /\ in_flight' = IF ShouldSend(NextAnswer(broker).claim, claims_sent)
                    THEN Issue(Issue(Complete(in_flight, "next_claim"), "send_claim_tx"),
                               "next_claim")
                    ELSE Issue(Complete(in_flight, "next_claim"), "next_claim")
  /\ UNCHANGED <<dapp_address, history, tx_sender, claims_sent, result,
                 submissions, tx_sender_in, mode, prev>>

\* while let Some(claim) = broker.next_claim().await?  -- a claim arrives
NextClaimSome ==
  /\ pc = "Polling"
  /\ NextAnswer(broker).kind = "Some"
  /\ broker' = Advance(broker)
  /\ polled' = Append(polled, NextAnswer(broker))
  /\ claim' = NextAnswer(broker).claim
  /\ pc' = IF ShouldSend(NextAnswer(broker).claim, claims_sent)
             THEN "Submitting" ELSE "Polling"
  /\ used' = IF ShouldSend(NextAnswer(broker).claim, claims_sent)
             THEN Append(used, tx_sender) ELSE used
  /\ in_flight' = Issue(Complete(in_flight, "next_claim"),
                        IF ShouldSend(NextAnswer(broker).claim, claims_sent)
                          THEN "send_claim_tx" ELSE "next_claim")
  /\ UNCHANGED <<dapp_address, history, tx_sender, claims_sent, result,
                 submissions, tx_sender_in, mode, prev>>

\* "no claim" is taken for a failure of the feed
NextClaimNone_err ==
  /\ pc = "Polling"
  /\ NextAnswer(broker).kind = "None"
  /\ broker' = Advance(broker)
  /\ polled' = Append(polled, NextAnswer(broker))
  /\ result' = Err("FeedError")
  /\ pc' = "Aborted"
  /\ in_flight' = Complete(in_flight, "next_claim")
  /\ UNCHANGED <<dapp_address, history, tx_sender, claims_sent, claim,
                 submissions, tx_sender_in, used, mode, prev>>

\* "no claim" does not end the loop: the pass asks the feed again
NextClaimNone_spin ==
  /\ pc = "Polling"
  /\ NextAnswer(broker).kind = "None"
  /\ broker' = IF broker.cursor < Len(broker.items) THEN Advance(broker) ELSE broker
  /\ polled' = IF broker.cursor < Len(broker.items)
                 THEN Append(polled, NextAnswer(broker)) ELSE polled
  /\ pc' = "Polling"
  /\ in_flight' = Issue(Complete(in_flight, "next_claim"), "next_claim")
  /\ UNCHANGED <<dapp_address, history, tx_sender, claims_sent, claim, result,
                 submissions, tx_sender_in, used, mode, prev>>

\* ... the feed answers None: the loop ends and react returns Ok(tx_sender)
NextClaimNone ==
  /\ pc = "Polling"
  /\ NextAnswer(broker).kind = "None"
  /\ broker' = Advance(broker)
  /\ polled' = Append(polled, NextAnswer(broker))
  /\ result' = react_return(tx_sender)
  /\ pc' = "Done"
  /\ in_flight' = Complete(in_flight, "next_claim")
  /\ UNCHANGED <<dapp_address, history, tx_sender, claims_sent, claim,
                 submissions, tx_sender_in, used, mode, prev>>

\* the failed request is passed over and the loop goes on
NextClaimErr_ignored ==
  /\ pc = "Polling"
  /\ NextAnswer(broker).kind = "Err"
  /\ broker' = Advance(broker)
  /\ polled' = Append(polled, NextAnswer(broker))
  /\ pc' = "Polling"
  /\ in_flight' = Issue(Complete(in_flight, "next_claim"), "next_claim")
  /\ UNCHANGED <<dapp_address, history, tx_sender, claims_sent, claim, result,
                 submissions, tx_sender_in, used, mode, prev>>

\* ... the request fails: `?` returns the error
NextClaimErr ==
  /\ pc = "Polling"
  /\ NextAnswer(broker).kind = "Err"
  /\ broker' = Advance(broker)
  /\ polled' = Append(polled, NextAnswer(broker))
  /\ result' = Err(NextAnswer(broker).error)
  /\ pc' = "Aborted"
  /\ in_flight' = Complete(in_flight, "next_claim")
  /\ UNCHANGED <<dapp_address, history, tx_sender, claims_sent, claim,
                 submissions, tx_sender_in, used, mode, prev>>

\* the claim is sent a second time after the send succeeded
SendClaimTxOk_twice ==
  /\ pc = "Submitting"
  /\ tx_sender' = send_claim_tx(send_claim_tx(tx_sender))
  /\ submissions' = Append(Append(submissions, [number |-> claim.number, hash |-> claim.hash]),
                           [number |-> claim.number, hash |-> claim.hash])
  /\ pc' = "Polling"
  /\ in_flight' = Issue(Complete(in_flight, "send_claim_tx"), "next_claim")
  /\ UNCHANGED <<dapp_address, history, broker, claims_sent, claim, result,
                 polled, tx_sender_in, used, mode, prev>>

\* the threshold is moved up to the claim just submitted
SendClaimTxOk_advance ==
  /\ pc = "Submitting"
  /\ tx_sender' = send_claim_tx(tx_sender)
  /\ submissions' = Append(submissions, [number |-> claim.number, hash |-> claim.hash])
  /\ claims_sent' = claim.number
  /\ pc' = "Polling"
  /\ in_flight' = Issue(Complete(in_flight, "send_claim_tx"), "next_claim")
  /\ UNCHANGED <<dapp_address, history, broker, claim, result,
                 polled, tx_sender_in, used, mode, prev>>

\* the capability the send returns is dropped and the old one is kept
SendClaimTxOk_reuse ==
  /\ pc = "Submitting"
  /\ tx_sender' = tx_sender
  /\ submissions' = Append(submissions, [number |-> claim.number, hash |-> claim.hash])
  /\ pc' = "Polling"
  /\ in_flight' = Issue(Complete(in_flight, "send_claim_tx"), "next_claim")
  /\ UNCHANGED <<dapp_address, history, broker, claims_sent, claim, result,
                 polled, tx_sender_in, used, mode, prev>>

\* tx_sender = tx_sender.send_claim_tx(&claim.hash).await?  -- the send succeeds
SendClaimTxOk ==
  /\ pc = "Submitting"
  /\ tx_sender' = send_claim_tx(tx_sender)
  /\ submissions' = Append(submissions, [number |-> claim.number, hash |-> claim.hash])
  /\ pc' = "Polling"
  /\ in_flight' = Issue(Complete(in_flight, "send_claim_tx"), "next_claim")
  /\ UNCHANGED <<dapp_address, history, broker, claims_sent, claim, result,
                 polled, tx_sender_in, used, mode, prev>>

\* the failed send is passed over and the loop goes on
SendClaimTxErr_ignored ==
  /\ pc = "Submitting"
  /\ pc' = "Polling"
  /\ in_flight' = Issue(Complete(in_flight, "send_claim_tx"), "next_claim")
  /\ UNCHANGED <<dapp_address, history, broker, tx_sender, claims_sent, claim, result,
                 polled, submissions, tx_sender_in, used, mode, prev>>

\* ... the send fails: `?` returns the error
SendClaimTxErr ==
  /\ pc = "Submitting"
  /\ result' = Err(SubmissionError)
  /\ pc' = "Aborted"
  /\ in_flight' = Complete(in_flight, "send_claim_tx")
  /\ UNCHANGED <<dapp_address, history, broker, tx_sender, claims_sent, claim,
                 polled, submissions, tx_sender_in, used, mode, prev>>

\* ---------------------------------------------------------------- caller
\* The snapshot after n more claims of address a were confirmed on chain.
Confirm(h, a, n) ==
  LET old == IF a \in DOMAIN h THEN Len(h[a].claims) ELSE 0
  IN [x \in (DOMAIN h) \cup {a} |-> IF x = a THEN DAppClaims(old + n) ELSE h[x]]

\* The caller follows a first pass by a second one, with a snapshot that
\* reflects what the first pass submitted. With again = TRUE the feed offers what it offered in
\* that pass once more; otherwise the caller keeps polling the same feed.
NewPass(again) ==
  /\ pc \in {"Done", "Aborted"}
  /\ mode = "first"
  /\ prev' = [pc |-> pc, history |-> history, claims_sent |-> claims_sent, polled |-> polled,
              submissions |-> submissions, result |-> result, broker |-> broker]
  /\ history' = Confirm(history, dapp_address, Len(submissions))
  /\ broker' = IF again
                 THEN [broker EXCEPT !.cursor = broker.cursor - Len(polled)]
                 ELSE broker
  /\ tx_sender' = IF result.kind = "Ok" THEN result.value ELSE TxSenderNew
  /\ tx_sender_in' = IF result.kind = "Ok" THEN result.value ELSE TxSenderNew
  /\ claims_sent' = 0
  /\ claim' = NoClaim
  /\ pc' = "Start"
  /\ result' = Pending
  /\ polled' = <<>>
  /\ submissions' = <<>>
  /\ used' = <<>>
  /\ in_flight' = <<>>
  /\ mode' = IF again THEN "rerun" ELSE "resume"
  /\ UNCHANGED dapp_address

Rerun == NewPass(TRUE)
Resume == NewPass(FALSE)

Next ==
  \/ ComputeThreshold
  \/ NextClaimSome
  \/ NextClaimNone
  \/ NextClaimErr
  \/ SendClaimTxOk
  \/ SendClaimTxErr
  \/ Rerun
  \/ Resume

Spec == Init /\ [][Next]_vars

\* A step of the pass itself: react from its first line to its return.
React ==
  \/ ComputeThreshold
  \/ NextClaimSome
  \/ NextClaimNone
  \/ NextClaimErr
  \/ SendClaimTxOk
  \/ SendClaimTxErr

\* One pass in which every feed request and every submission returns in the
\* end: a step of the pass that can be taken is taken.
SpecLive == Init /\ [][React]_vars /\ WF_vars(React)

\* The caller runs the pass a second time over the same feed and with the same
\* capability, with a snapshot that records as many confirmed claims for the
\* driver's address as the first one and anything for the other addresses.
Replay ==
  /\ pc \in {"Done", "Aborted"}
  /\ mode = "first"
  /\ prev' = [pc |-> pc, history |-> history, claims_sent |-> claims_sent, polled |-> polled,
              submissions |-> submissions, result |-> result, broker |-> broker]
  /\ \E h \in Histories :
       /\ (IF dapp_address \in DOMAIN h THEN Len(h[dapp_address].claims) ELSE 0)
            = (IF dapp_address \in DOMAIN history
                 THEN Len(history[dapp_address].claims) ELSE 0)
       /\ history' = h
  /\ broker' = [broker EXCEPT !.cursor = broker.cursor - Len(polled)]
  /\ tx_sender' = tx_sender_in
  /\ claims_sent' = 0
  /\ claim' = NoClaim
  /\ pc' = "Start"
  /\ result' = Pending
  /\ polled' = <<>>
  /\ submissions' = <<>>
  /\ used' = <<>>
  /\ in_flight' = <<>>
  /\ mode' = "replay"
  /\ UNCHANGED <<dapp_address, tx_sender_in>>

InitReplay == Init /\ Len(broker.items) <= MaxReplayFeed

NextReplay ==
  \/ ComputeThreshold
  \/ NextClaimSome
  \/ NextClaimNone
  \/ NextClaimErr
  \/ SendClaimTxOk
  \/ SendClaimTxErr
  \/ Replay

SpecReplay == InitReplay /\ [][NextReplay]_vars

\* The caller drops the future of the pass while it is suspended on an await.
\* A submission that was outstanding may or may not have taken effect.
Cancel ==
  /\ pc \in {"Polling", "Submitting"}
  /\ \E performed \in BOOLEAN :
       submissions' = IF pc = "Submitting" /\ performed
                        THEN Append(submissions, [number |-> claim.number, hash |-> claim.hash])
                        ELSE submissions
  /\ pc' = "Cancelled"
  /\ in_flight' = <<>>
  /\ UNCHANGED <<dapp_address, history, broker, tx_sender, claims_sent, claim, result,
                 polled, tx_sender_in, used, mode, prev>>

\* One pass that the caller may cancel.
NextCancel ==
  \/ ComputeThreshold
  \/ NextClaimSome
  \/ NextClaimNone
  \/ NextClaimErr
  \/ SendClaimTxOk
  \/ SendClaimTxErr
  \/ Cancel

SpecCancel == Init /\ [][NextCancel]_vars

\* ---------------------------------------------------------------- reading a pass
Range(s) == {s[i] : i \in DOMAIN s}

\* The claims among the answers p, in the order the feed gave them.
ClaimsOf(p) ==
  LET IsSome(x) == x.kind = "Some"
      some == SelectSeq(p, IsSome)
  IN [i \in DOMAIN some |-> some[i].claim]

\* The claims among the answers p whose number is above t, in feed order.
Qualifying(p, t) ==
  LET Above(c) == c.number > t
  IN SelectSeq(ClaimsOf(p), Above)

\* How often x occurs in the sequence s.
Count(s, x) == Cardinality({i \in DOMAIN s : s[i] = x})

\* The confirmed claims a snapshot records, as (address, position) pairs.
ConfirmedEntries(h) ==
  UNION {{<<a, i>> : i \in DOMAIN h[a].claims} : a \in DOMAIN h}

\* confirmed_count(S, a): how many confirmed claims S records for address a.
ConfirmedCount(h, a) == Cardinality({e \in ConfirmedEntries(h) : e[1] = a})

\* ---------------------------------------------------------------- claims
\* C1: after a pass that returns success, the submissions made are exactly the
\* feed's claims with number > confirmed_count(S, dapp_address), each with its
\* own hash, in the feed's order: none omitted, added, reordered or batched.
C1_SubmissionsAreQualifyingSubsequence ==
  pc = "Done" =>
    /\ submissions = Qualifying(polled, ConfirmedCount(history, dapp_address))
    /\ Len(submissions) =
         Cardinality({i \in DOMAIN polled :
                        /\ polled[i].kind = "Some"
                        /\ polled[i].claim.number > ConfirmedCount(history, dapp_address)})

\* A successful pass over new, old, new: two different claims were submitted
\* around a skipped one.
C1_Witness ==
  /\ pc = "Done"
  /\ Len(polled) = 4
  /\ Len(submissions) = 2
  /\ submissions[1] # submissions[2]
  /\ polled[2].kind = "Some"
  /\ polled[2].claim.number <= claims_sent

\* C2 as stated: for every feed, the submissions of a pass never contain the
\* same claim (same number and hash) twice.
C2_NoClaimSubmittedTwice ==
  \A i, j \in DOMAIN submissions : i # j => submissions[i] # submissions[j]

\* C2 amended: a pass never submits a claim more often than the feed yielded
\* it in that pass, so a claim the feed yields once is submitted at most once.
C2_SubmittedNoMoreOftenThanYielded ==
  \A c \in Range(submissions) : Count(submissions, c) <= Count(ClaimsOf(polled), c)

\* The feed yielded one qualifying claim twice and the pass submitted it twice.
C2_Witness ==
  /\ pc = "Done"
  /\ \E c \in RollupClaim :
       /\ Count(ClaimsOf(polled), c) = 2
       /\ Count(submissions, c) = 2

\* C3 as stated: in a successful pass every claim of the feed whose number is
\* at least the confirmed count k is submitted, the claim numbered k included.
C3_ClaimNumberedCountIsSubmitted ==
  pc = "Done" =>
    \A c \in Range(ClaimsOf(polled)) :
      c.number >= ConfirmedCount(history, dapp_address) => c \in Range(submissions)

\* C3 amended: in a successful pass a claim of the feed is submitted exactly
\* when its number is above the confirmed count k; the claim numbered k is
\* taken as already reflected and is not submitted.
C3_SubmittedIffAboveCount ==
  pc = "Done" =>
    \A c \in Range(ClaimsOf(polled)) :
      c \in Range(submissions) <=> c.number > ConfirmedCount(history, dapp_address)

\* A successful pass that met the claim numbered k and the claim numbered k+1.
C3_Witness ==
  /\ pc = "Done"
  /\ \E c, d \in Range(ClaimsOf(polled)) :
       /\ c.number = ConfirmedCount(history, dapp_address)
       /\ d.number = ConfirmedCount(history, dapp_address) + 1
       /\ d \in Range(submissions)
       /\ c \notin Range(submissions)

\* C4: the threshold of a pass is the number of confirmed claims the snapshot
\* records for the driver's own address, 0 when it has no entry for it;
\* entries of other addresses do not count.
C4_ThresholdIsOwnConfirmedCount ==
  pc # "Start" =>
    /\ claims_sent = ConfirmedCount(history, dapp_address)
    /\ dapp_address \notin DOMAIN history => claims_sent = 0

\* The threshold was computed from a snapshot in which the driver's address
\* and another address have different numbers of confirmed claims.
C4_Witness ==
  /\ pc = "Polling"
  /\ mode = "rerun"
  /\ claims_sent = 2
  /\ \E a \in DOMAIN history : a # dapp_address /\ Len(history[a].claims) = 1

\* C5: a claim with number <= threshold (number = threshold included) causes
\* no submission and no error and the pass goes on polling; a pass whose feed
\* gave only such claims has made no submission and has not failed.
C5_OldClaimIsSkipped ==
  /\ [][(/\ pc = "Polling"
         /\ NextAnswer(broker).kind = "Some"
         /\ NextAnswer(broker).claim.number <= claims_sent
         /\ polled' # polled)
        => (/\ pc' = "Polling"
            /\ submissions' = submissions
            /\ tx_sender' = tx_sender
            /\ result' = Pending)]_vars
  /\ []((/\ pc \in {"Done", "Aborted"}
         /\ \A i \in DOMAIN polled : polled[i].kind # "Err"
         /\ \A c \in Range(ClaimsOf(polled)) : c.number <= claims_sent)
        => (pc = "Done" /\ submissions = <<>> /\ result.kind = "Ok"))

\* A pass over two old claims, one of them numbered exactly the threshold,
\* ended with success and without a submission.
C5_Witness ==
  /\ pc = "Done"
  /\ claims_sent > 0
  /\ Len(polled) = 3
  /\ polled[1].kind = "Some" /\ polled[1].claim.number = claims_sent
  /\ polled[2].kind = "Some" /\ polled[2].claim.number < claims_sent
  /\ submissions = <<>>

\* C6: when the first answer of the feed is "no claim", the pass makes no
\* submission and returns success with the very capability it was given.
C6_EmptyFeedReturnsCapabilityUnchanged ==
  /\ [][(/\ pc = "Polling"
         /\ polled = <<>>
         /\ NextAnswer(broker).kind = "None"
         /\ polled' # polled)
        => (/\ pc' = "Done"
            /\ result' = Ok(tx_sender_in)
            /\ submissions' = <<>>)]_vars
  /\ []((pc = "Done" /\ Len(polled) = 1)
        => (submissions = <<>> /\ result = Ok(tx_sender_in)))

\* An empty pass that was given a capability which had already sent a claim.
C6_Witness ==
  /\ pc = "Done"
  /\ Len(polled) = 1
  /\ tx_sender_in = 1
  /\ result = Ok(1)

\* C7: a failing feed request ends the pass at once with that same error;
\* after it the pass makes no feed request and no submission, and what was
\* submitted before is exactly the qualifying claims yielded before it.
C7_FeedErrorAbortsPass ==
  /\ [][(/\ pc = "Polling"
         /\ NextAnswer(broker).kind = "Err"
         /\ polled' # polled)
        => (/\ pc' = "Aborted"
            /\ result' = Err(NextAnswer(broker).error)
            /\ submissions' = submissions)]_vars
  /\ [][(pc = "Aborted" /\ result.error \in FeedErrors /\ mode' = mode)
        => UNCHANGED <<polled, submissions, broker, result, pc>>]_vars
  /\ []((pc = "Aborted" /\ result.error \in FeedErrors)
        => (/\ polled[Len(polled)] = ErrItem(result.error)
            /\ \A i \in 1..(Len(polled) - 1) : polled[i].kind = "Some"
            /\ submissions = Qualifying(polled, claims_sent)))
  /\ [](\A i \in 1..(Len(polled) - 1) : polled[i].kind # "Err")

\* The feed failed on its third request, after two submissions had succeeded.
C7_Witness ==
  /\ pc = "Aborted"
  /\ result = Err("FeedError")
  /\ Len(polled) = 3
  /\ Len(submissions) = 2

\* C8: a failing submission ends the pass at once with that error: the claim
\* is not retried, nothing more is requested from the feed or submitted, and
\* the submissions made before stay as they are.
C8_SubmissionErrorAbortsPass ==
  /\ [][(pc = "Submitting")
        => \/ (/\ pc' = "Polling"
               /\ submissions' = Append(submissions, claim)
               /\ polled' = polled)
           \/ (/\ pc' = "Aborted"
               /\ result' = Err(SubmissionError)
               /\ submissions' = submissions
               /\ polled' = polled
               /\ broker' = broker)]_vars
  /\ [][(pc = "Aborted" /\ result.error = SubmissionError /\ mode' = mode)
        => UNCHANGED <<polled, submissions, broker, result, pc>>]_vars
  /\ []((pc = "Aborted" /\ result.error = SubmissionError)
        => (/\ polled[Len(polled)] = SomeItem(claim)
            /\ claim.number > claims_sent
            /\ submissions = Qualifying(SubSeq(polled, 1, Len(polled) - 1), claims_sent)))
  /\ []((pc = "Polling" /\ Len(polled) > 0 /\ polled[Len(polled)].kind = "Some"
           /\ polled[Len(polled)].claim.number > claims_sent)
        => (Len(submissions) > 0 /\ submissions[Len(submissions)] = polled[Len(polled)].claim))

\* The second submission of a pass failed after the first had succeeded.
C8_Witness ==
  /\ pc = "Aborted"
  /\ result = Err(SubmissionError)
  /\ Len(submissions) = 1
  /\ Len(polled) = 2
  /\ polled[2].claim # submissions[1]

\* C9 as stated: after a successful pass, a second pass whose snapshot's
\* confirmed count has grown by the number of first-pass submissions, over a
\* feed that offers the same claims again, submits nothing.
C9_RerunSubmitsNothing ==
  (mode = "rerun" /\ prev.pc = "Done") => submissions = <<>>

\* C9 amended: the second pass submits nothing provided the claims the first
\* pass submitted are numbered no higher than the new confirmed count, as they
\* are when the feed numbers its pending claims without gaps from threshold + 1.
C9_RerunSubmitsNothingWithoutGaps ==
  (/\ mode = "rerun"
   /\ prev.pc = "Done"
   /\ \A i \in DOMAIN prev.submissions :
        prev.submissions[i].number <= prev.claims_sent + Len(prev.submissions))
  => (submissions = <<>> /\ pc # "Submitting")

\* A second pass met again both claims the first pass had submitted and ended
\* without a submission.
C9_Witness ==
  /\ mode = "rerun"
  /\ prev.pc = "Done"
  /\ Len(prev.submissions) = 2
  /\ prev.submissions[1].number = prev.claims_sent + 1
  /\ prev.submissions[2].number = prev.claims_sent + 2
  /\ pc = "Done"
  /\ polled = prev.polled
  /\ claims_sent = prev.claims_sent + 2
  /\ submissions = <<>>

\* C10: when a pass aborts and the caller runs a new pass with a snapshot that
\* reflects what was submitted and keeps polling the same feed, then across
\* the two passes every pending claim of the feed, the one whose submission
\* failed included, is submitted exactly once. The pending claims are those
\* above the first threshold, numbered by the feed without gaps.
C10_ResumeSubmitsEveryPendingClaimOnce ==
  (/\ mode = "resume"
   /\ prev.pc = "Aborted"
   /\ pc = "Done"
   /\ LET q == Qualifying(prev.polled \o polled, prev.claims_sent)
      IN \A i \in DOMAIN q : q[i].number = prev.claims_sent + i)
  => prev.submissions \o submissions = Qualifying(prev.polled \o polled, prev.claims_sent)

\* C11: the capability is used linearly. The first submission of a pass uses
\* the capability passed in, every later one uses the value the submission
\* before it returned, no value is passed to two submissions, and on success
\* the pass returns the value the last submission returned, whose send count
\* has grown by the number of submissions of the pass.
C11_CapabilityUsedLinearly ==
  /\ \A i \in DOMAIN used :
       used[i] = IF i = 1 THEN tx_sender_in ELSE send_claim_tx(used[i - 1])
  /\ \A i, j \in DOMAIN used : i # j => used[i] # used[j]
  /\ pc = "Done" =>
       /\ result = Ok(IF used = <<>> THEN tx_sender_in ELSE send_claim_tx(used[Len(used)]))
       /\ result.value = tx_sender_in + Len(submissions)
       /\ Len(used) = Len(submissions)

\* A successful pass that made two submissions with a new capability and
\* returned it with a send count of two.
C11_Witness ==
  /\ pc = "Done"
  /\ tx_sender_in = TxSenderNew
  /\ used = <<TxSenderNew, send_claim_tx(TxSenderNew)>>
  /\ Len(submissions) = 2
  /\ result = Ok(2)

\* C12 as stated: Submitting is entered only from Polling on a claim above the
\* threshold, every entry into Submitting is followed by a return to Polling,
\* and the pass can go on exactly until it is Done or Aborted.
C12_SubmittingAlwaysReturnsToPolling ==
  /\ [][(pc' = "Submitting" /\ pc # "Submitting")
        => (pc = "Polling" /\ claim'.number > claims_sent)]_vars
  /\ [][pc = "Submitting" => (pc' = "Polling")]_vars
  /\ [](pc \in {"Done", "Aborted"} <=> ~ENABLED React)

\* C12 amended: Submitting is entered only from Polling on a claim above the
\* threshold; it is left for Polling when the submission succeeds and for
\* Aborted, with the submission's error, when it fails; Done is reached only
\* on "no claim", and the pass can go on exactly until it is Done or Aborted.
C12_PassStateMachine ==
  /\ [][(pc' = "Submitting" /\ pc # "Submitting")
        => (/\ pc = "Polling"
            /\ polled' = Append(polled, SomeItem(claim'))
            /\ claim'.number > claims_sent)]_vars
  /\ [][pc = "Submitting" => pc' \in {"Polling", "Aborted"}]_vars
  /\ [][(pc = "Submitting" /\ pc' = "Aborted") => result' = Err(SubmissionError)]_vars
  /\ [][(pc' = "Done" /\ pc # "Done")
        => (pc = "Polling" /\ NextAnswer(broker).kind = "None")]_vars
  /\ [][(pc \in {"Done", "Aborted"}) => (pc' = "Start")]_vars
  /\ [](pc \in {"Done", "Aborted"} <=> ~ENABLED React)
  /\ [](pc = "Done" <=> result.kind = "Ok")
  /\ [](pc = "Aborted" <=> result.kind = "Err")

\* The pass has entered Submitting for its first claim and is back in Polling.
C12_Witness ==
  /\ pc = "Polling"
  /\ Len(polled) = 1
  /\ polled[1].kind = "Some"
  /\ Len(submissions) = 1
  /\ submissions[1].number > claims_sent

\* C13: at most one awaited operation of the pass is outstanding at a time: a
\* feed request while the pass polls, a submission while it submits, nothing
\* before the pass starts and after it ends; and an operation is issued only
\* by the step on which the one before it returned.
C13_OneOperationOutstanding ==
  /\ [](Len(in_flight) <= 1)
  /\ [](in_flight = CASE pc = "Polling" -> <<"next_claim">>
                      [] pc = "Submitting" -> <<"send_claim_tx">>
                      [] OTHER -> <<>>)
  /\ [][(in_flight' = <<"next_claim">>)
        => \/ in_flight = <<>> /\ pc = "Start"
           \/ in_flight = <<"next_claim">> /\ (polled' # polled \/ UNCHANGED vars)
           \/ in_flight = <<"send_claim_tx">> /\ submissions' # submissions]_vars
  /\ [][(in_flight' = <<"send_claim_tx">>)
        => (in_flight = <<"send_claim_tx">>
            \/ (in_flight = <<"next_claim">> /\ polled' = Append(polled, SomeItem(claim'))))]_vars

\* The second submission of a pass is outstanding alone, after the first
\* submission and two feed requests have returned.
C13_Witness ==
  /\ pc = "Submitting"
  /\ in_flight = <<"send_claim_tx">>
  /\ Len(polled) = 2
  /\ Len(submissions) = 1

\* The claims above t among all that the feed b holds for the current pass,
\* which has received the answers p so far.
QualifyingOffered(b, p, t) ==
  Qualifying(SubSeq(b.items, b.cursor - Len(p) + 1, Len(b.items)), t)

IsPrefix(s, t) == Len(s) <= Len(t) /\ SubSeq(t, 1, Len(s)) = s

\* C14: in every state of a pass, also after an abort or a cancellation at a
\* suspension point, the submissions performed so far are a prefix of the
\* qualifying claims of the feed, and they are the qualifying claims among the
\* feed items consumed so far, less at most the one claim whose submission is
\* outstanding, failed or was cancelled.
C14_SubmissionsArePrefixOfPending ==
  LET q == Qualifying(polled, claims_sent)
      front == SubSeq(q, 1, Len(q) - 1)
      lastQualifies == /\ polled # <<>>
                       /\ polled[Len(polled)].kind = "Some"
                       /\ polled[Len(polled)].claim.number > claims_sent
  IN /\ pc # "Start" => IsPrefix(submissions, QualifyingOffered(broker, polled, claims_sent))
     /\ pc = "Start" => submissions = <<>> /\ polled = <<>>
     /\ pc \in {"Polling", "Done"} => submissions = q
     /\ (pc = "Aborted" /\ result.error \in FeedErrors) => submissions = q
     /\ pc = "Submitting" => lastQualifies /\ submissions = front
     /\ (pc = "Aborted" /\ result.error = SubmissionError) => lastQualifies /\ submissions = front
     /\ pc = "Cancelled" => submissions = q \/ (lastQualifies /\ submissions = front)

\* The pass was cancelled while its second submission was outstanding, and
\* that submission did not take effect.
C14_Witness ==
  /\ pc = "Cancelled"
  /\ Len(Qualifying(polled, claims_sent)) = 2
  /\ Len(submissions) = 1
  /\ polled[Len(polled)].kind = "Some"
  /\ polled[Len(polled)].claim.number > claims_sent

\* C15: the threshold is fixed for the whole pass and the snapshot is never
\* modified: no feed request and no submission changes either, and whether a
\* claim is submitted depends only on its number and the threshold the pass
\* started with, not on what was submitted before it in the pass.
C15_ThresholdFixedForPass ==
  /\ [][(mode' = mode) => (history' = history /\ dapp_address' = dapp_address)]_vars
  /\ [][(mode' = mode /\ pc # "Start") => (claims_sent' = claims_sent)]_vars
  /\ [][(pc = "Polling" /\ NextAnswer(broker).kind = "Some" /\ polled' # polled)
        => ((pc' = "Submitting")
              <=> (NextAnswer(broker).claim.number > ConfirmedCount(history, dapp_address)))]_vars

\* With threshold 0 the claim numbered 1 arrived after the claim numbered 2
\* had been submitted, and was submitted too.
C15_Witness ==
  /\ pc = "Done"
  /\ claims_sent = 0
  /\ Len(submissions) = 2
  /\ submissions[1].number = 2
  /\ submissions[2].number = 1

\* C16: a pass over a feed that yields finitely many claims before "no claim"
\* or an error ends, provided every feed request and every submission
\* returns: it reaches Done, returning the capability, or Aborted, returning
\* the error, after at most one feed request for each claim yielded and one
\* more.
C16_PassTerminates ==
  /\ <>(pc \in {"Done", "Aborted"})
  /\ [](pc = "Done" => result = Ok(tx_sender))
  /\ [](pc = "Aborted" => result.kind = "Err")
  /\ [](Len(polled) <= Len(ClaimsOf(polled)) + 1)
  /\ [](pc \in {"Done", "Aborted"}
          => Len(polled) = Len(ClaimsOf(polled))
                           + (IF result.error = SubmissionError THEN 0 ELSE 1))

\* A pass has ended with success after three claims and a fourth request
\* that was answered "no claim".
C16_Witness ==
  /\ pc = "Done"
  /\ Len(polled) = 4
  /\ Len(ClaimsOf(polled)) = 3

\* C17: the first "no claim" answer ends the pass with success: after it the
\* pass makes no feed request and no submission, so what the feed offers
\* after that answer is left for a later pass, which gets it first.
C17_FirstNoClaimEndsPass ==
  /\ [][(pc = "Polling" /\ NextAnswer(broker).kind = "None" /\ polled' # polled)
        => (/\ pc' = "Done"
            /\ result' = Ok(tx_sender)
            /\ in_flight' = <<>>
            /\ submissions' = submissions)]_vars
  /\ [][(pc = "Done" /\ mode' = mode)
        => UNCHANGED <<polled, submissions, broker, used, in_flight>>]_vars
  /\ [](\A i \in 1..(Len(polled) - 1) : polled[i].kind # "None")
  /\ []((mode = "resume" /\ prev.pc = "Done" /\ polled # <<>>)
        => (/\ prev.polled[Len(prev.polled)] = NoneItem
            /\ polled[1] = NextAnswer(prev.broker)))

\* A claim the feed held behind a "no claim" answer was left by the pass that
\* got that answer and submitted by the pass after it.
C17_Witness ==
  /\ mode = "resume"
  /\ prev.pc = "Done"
  /\ prev.broker.cursor < Len(broker.items)
  /\ prev.submissions = <<>>
  /\ submissions = <<broker.items[prev.broker.cursor + 1].claim>>
  /\ pc = "Done"

\* C18: two passes over the same feed, with snapshots that agree on the
\* confirmed count of the driver's address and differ in any way on the other
\* addresses, make the same submissions and return the same result when the
\* feed requests and the submissions themselves end the same way.
C18_OtherAddressesDoNotMatter ==
  /\ (mode = "replay" /\ pc # "Start") => claims_sent = prev.claims_sent
  /\ (mode = "replay" /\ pc \in {"Done", "Aborted"} /\ polled = prev.polled)
       => (submissions = prev.submissions /\ result = prev.result /\ pc = prev.pc)
  /\ mode = "replay"
       => (/\ IsPrefix(polled, prev.polled) \/ IsPrefix(prev.polled, polled)
           /\ IsPrefix(submissions, prev.submissions) \/ IsPrefix(prev.submissions, submissions))

\* The second pass ran with a snapshot that has an entry with a confirmed
\* claim for another address, which the first snapshot had not, and ended
\* like the first with the same submission.
C18_Witness ==
  /\ mode = "replay"
  /\ pc = "Done"
  /\ \E a \in DOMAIN history :
       /\ a # dapp_address
       /\ a \notin DOMAIN prev.history
       /\ Len(history[a].claims) = 1
  /\ Len(submissions) = 1
  /\ submissions = prev.submissions
  /\ result = prev.result
====
